---- MODULE Spec2Model ----
(***************************************************************************)
(* gosugar: the panic-based error helpers (Must, Check, Try, Or, Ignore)   *)
(* and the validator chain applied by Input, modelled on Go's semantics of *)
(* panic, deferred functions and recover: a panic unwinds the call stack   *)
(* of the goroutine that raised it, runs the deferred functions of the     *)
(* frames it leaves, and terminates the process when no deferred function  *)
(* of that goroutine calls recover.                                        *)
(* The env file loader and MustEnv (env.go) and the file helpers (file.go: *)
(* CreateFile, WriteFile, AppendFile, ReadFile) act on the environment and *)
(* the file system of the process; Input and InputInt read standard input  *)
(* through a scanner of their own; GetBody and GetJSON (http.go) fetch a   *)
(* URL with the default client; RandInt (random.go) draws an int.          *)
(***************************************************************************)
EXTENDS Integers, Sequences, FiniteSets, TLC

(***************************************************************************)
(* Bounds.                                                                 *)
(***************************************************************************)
MaxVal == 2        \* values of T = int are 0..MaxVal
MaxCalls == 2      \* top-level calls a goroutine makes
MaxLineLen == 2    \* characters in a line read from standard input
MaxChain == 2      \* validators in a chain
MaxN == 2          \* the parameter n of MinLen(n) and MaxLen(n) is -MaxN..MaxN
MaxEnvLines == 2   \* lines read from an env file
MaxFileOps == 3    \* calls of WriteFile, AppendFile and ReadFile a process makes
IntBits == 3       \* bits of an int
MaxMembers == 2    \* members of a JSON document
MaxStdin == 3      \* lines standard input holds

Gor == {"main", "other"}

Vals == 0 .. MaxVal

\* The zero values of T, for T = int and T = string (strings are sequences
\* of characters): what a named result holds before any assignment.
Zero == 0
EmptyString == <<>>

(***************************************************************************)
(* Interface values: errors and panic payloads.  Nil is the nil interface  *)
(* (a nil error, the argument of panic(nil), what recover() returns when   *)
(* the goroutine is not panicking).  NoPanic marks a goroutine that is not *)
(* panicking, which is different from one panicking with a nil payload.    *)
(***************************************************************************)
Nil == [kind |-> "nil", msg |-> ""]
NoPanic == [kind |-> "none", msg |-> ""]
ErrorsNew(text) == [kind |-> "error", msg |-> text]
StringValue(text) == [kind |-> "string", msg |-> text]
DivideError == [kind |-> "runtime.Error", msg |-> "runtime error: integer divide by zero"]
PanicNilError == [kind |-> "runtime.PanicNilError", msg |-> "panic called with nil argument"]

\* Non-nil error values the callers pass around.
Errs == {ErrorsNew("open data.txt: no such file or directory"),
         ErrorsNew("strconv.Atoi: parsing \"abc\": invalid syntax")}

\* Arguments callers give to panic().
PanicArgs == Errs \cup {StringValue("test panic"), Nil}

\* panic(p): the payload the runtime raises.  panic(nil) raises nil itself
\* or a *runtime.PanicNilError, depending on the build (go directive and
\* GODEBUG=panicnil): either outcome is possible.
GoPanicValues(p) == IF p = Nil THEN {Nil, PanicNilError} ELSE {p}

(***************************************************************************)
(* The outcome of running a straight-line function: it returns a value or  *)
(* it panics.                                                              *)
(***************************************************************************)
NoValue == [kind |-> "void", msg |-> ""]
Return(x) == [kind |-> "return", val |-> x]
Panic(p) == [kind |-> "panic", payload |-> p]

\* Mutant of Must: the error is not looked at.
MustIgnoresErr(v, err) == Return(v)

\* Mutant of Must: the panic carries a new error made from the message of
\* err, not err itself.
MustPanicsWithCopy(v, err) ==
    IF err # Nil THEN Panic([kind |-> "error", msg |-> "must: " \o err.msg]) ELSE Return(v)

\* func Must[T any](v T, err error) T
Must(v, err) == IF err # Nil THEN Panic(err) ELSE Return(v)

\* Mutant of Check: the error is dropped, as Ignore does.
CheckSilent(err) == Return(NoValue)

\* func Check(err error)
Check(err) == IF err # Nil THEN Panic(err) ELSE Return(NoValue)

\* Mutant of Or: the fallback is chosen by looking at v, not at ok.
OrByValue(v, ok, fallback) == IF v # Zero THEN v ELSE fallback

\* func Or[T any](v T, ok bool, fallback T) T
Or(v, ok, fallback) == IF ok THEN v ELSE fallback

\* func Ignore(err error)
Ignore(err) == Return(NoValue)

(***************************************************************************)
(* Strings are sequences of characters (code points); messages of errors   *)
(* are kept as string literals.  len(s) in Go is the number of bytes of    *)
(* the UTF-8 encoding of s.                                                *)
(***************************************************************************)
Chars == {"a", " ", "U+015F"}     \* a letter, a space, a two-byte letter
WhiteSpace == {" "}

Utf8Len(c) == IF c = "U+015F" THEN 2 ELSE 1

RECURSIVE GoLen(_)
GoLen(s) == IF s = <<>> THEN 0 ELSE Utf8Len(Head(s)) + GoLen(Tail(s))

RECURSIVE TrimLeft(_)
TrimLeft(s) == IF s # <<>> /\ Head(s) \in WhiteSpace THEN TrimLeft(Tail(s)) ELSE s

RECURSIVE TrimRight(_)
TrimRight(s) ==
    IF s # <<>> /\ s[Len(s)] \in WhiteSpace THEN TrimRight(SubSeq(s, 1, Len(s) - 1)) ELSE s

\* Mutant of TrimSpace: only leading white space is removed.
TrimLeftOnly(s) == TrimLeft(s)

\* strings.TrimSpace
TrimSpace(s) == TrimRight(TrimLeft(s))

Lines == UNION {[1 .. k -> Chars] : k \in 0 .. MaxLineLen}

\* The verb %d: the decimal digits of n, with a minus sign when n < 0.
Digit(d) ==
    CASE d = 0 -> "0" [] d = 1 -> "1" [] d = 2 -> "2" [] d = 3 -> "3" [] d = 4 -> "4"
      [] d = 5 -> "5" [] d = 6 -> "6" [] d = 7 -> "7" [] d = 8 -> "8" [] d = 9 -> "9"

RECURSIVE FormatNat(_)
FormatNat(n) == IF n < 10 THEN Digit(n) ELSE FormatNat(n \div 10) \o Digit(n % 10)

FormatInt(n) == IF n < 0 THEN "-" \o FormatNat(0 - n) ELSE FormatNat(n)

\* fmt.Errorf(prefix + "%w", err): the message of err after the prefix.
ErrorfWrap(prefix, err) == [kind |-> "error", msg |-> prefix \o err.msg]

(***************************************************************************)
(* Validators: type Validator func(string) error.                          *)
(***************************************************************************)
NotEmpty == [kind |-> "NotEmpty"]
MinLen(n) == [kind |-> "MinLen", n |-> n]
MaxLen(n) == [kind |-> "MaxLen", n |-> n]

Validators == {NotEmpty} \cup {MinLen(n) : n \in 0 .. MaxN} \cup {MaxLen(n) : n \in 0 .. MaxN}

\* MinLen(n) and MaxLen(n) take any int: nothing rejects a negative n.
NegativeValidators ==
    {MinLen(n) : n \in (0 - MaxN) .. (0 - 1)} \cup {MaxLen(n) : n \in (0 - MaxN) .. (0 - 1)}

Chains == UNION {[1 .. k -> Validators] : k \in 0 .. MaxChain}

\* Mutant of Validate: a negative n counts as 0.
ValidateNegativeAsZero(validator, s) ==
    CASE validator.kind = "NotEmpty" ->
            IF s = EmptyString THEN ErrorsNew("value cannot be empty") ELSE Nil
      [] validator.kind = "MinLen" ->
            IF GoLen(s) < (IF validator.n < 0 THEN 0 ELSE validator.n)
            THEN ErrorsNew("minimum length is " \o FormatInt(validator.n)) ELSE Nil
      [] validator.kind = "MaxLen" ->
            IF GoLen(s) > (IF validator.n < 0 THEN 0 ELSE validator.n)
            THEN ErrorsNew("maximum length is " \o FormatInt(validator.n)) ELSE Nil

\* Mutant of Validate: MinLen(n) also rejects a string of length exactly n.
ValidateMinLenExclusive(validator, s) ==
    CASE validator.kind = "NotEmpty" ->
            IF s = EmptyString THEN ErrorsNew("value cannot be empty") ELSE Nil
      [] validator.kind = "MinLen" ->
            IF GoLen(s) <= validator.n
            THEN ErrorsNew("minimum length is " \o FormatInt(validator.n)) ELSE Nil
      [] validator.kind = "MaxLen" ->
            IF GoLen(s) > validator.n
            THEN ErrorsNew("maximum length is " \o FormatInt(validator.n)) ELSE Nil

\* Mutant of Validate: MaxLen(n) also rejects a string of length exactly n.
ValidateMaxLenExclusive(validator, s) ==
    CASE validator.kind = "NotEmpty" ->
            IF s = EmptyString THEN ErrorsNew("value cannot be empty") ELSE Nil
      [] validator.kind = "MinLen" ->
            IF GoLen(s) < validator.n
            THEN ErrorsNew("minimum length is " \o FormatInt(validator.n)) ELSE Nil
      [] validator.kind = "MaxLen" ->
            IF GoLen(s) >= validator.n
            THEN ErrorsNew("maximum length is " \o FormatInt(validator.n)) ELSE Nil

\* Mutant of Validate: NotEmpty() also rejects a string of white space only.
ValidateNotEmptyTrimmed(validator, s) ==
    CASE validator.kind = "NotEmpty" ->
            IF TrimSpace(s) = EmptyString THEN ErrorsNew("value cannot be empty") ELSE Nil
      [] validator.kind = "MinLen" ->
            IF GoLen(s) < validator.n
            THEN ErrorsNew("minimum length is " \o FormatInt(validator.n)) ELSE Nil
      [] validator.kind = "MaxLen" ->
            IF GoLen(s) > validator.n
            THEN ErrorsNew("maximum length is " \o FormatInt(validator.n)) ELSE Nil

\* validate(s): the error the validator returns, Nil when it accepts s.
Validate(validator, s) ==
    CASE validator.kind = "NotEmpty" ->
            IF s = EmptyString THEN ErrorsNew("value cannot be empty") ELSE Nil
      [] validator.kind = "MinLen" ->
            IF GoLen(s) < validator.n
            THEN ErrorsNew("minimum length is " \o FormatInt(validator.n)) ELSE Nil
      [] validator.kind = "MaxLen" ->
            IF GoLen(s) > validator.n
            THEN ErrorsNew("maximum length is " \o FormatInt(validator.n)) ELSE Nil

Prompts == {"", "Email: "}

(***************************************************************************)
(* The closures callers hand to Try.  A body that is a straight-line       *)
(* function is run in one step by EvalBody; a body that itself calls Try   *)
(* gets a frame of its own.                                                *)
(***************************************************************************)
SimpleBodies ==
    {[kind |-> "return", val |-> r] : r \in Vals}                        \* func() int { return r }
    \cup {[kind |-> "panic", err |-> p] : p \in PanicArgs}               \* func() int { panic(p) }
    \cup {[kind |-> "div", val |-> a, by |-> b] : a \in Vals, b \in {0, 1}}  \* func() int { return a / b }
    \cup {[kind |-> "must", val |-> v, err |-> e] : v \in Vals, e \in Errs \cup {Nil}}
                                                                         \* func() int { return Must(v, e) }
    \cup {[kind |-> "check", val |-> v, err |-> e] : v \in Vals, e \in Errs \cup {Nil}}
                                                                         \* func() int { Check(e); return v }

\* T of a closure: Input returns a string, the other bodies an int.
ZeroOf(body) == IF body.kind = "input" THEN EmptyString ELSE Zero

EvalBody(b) ==
    CASE b.kind = "return" -> Return(b.val)
      [] b.kind = "panic"  -> Panic(b.err)
      [] b.kind = "div"    -> IF b.by = 0 THEN Panic(DivideError) ELSE Return(b.val \div b.by)
      [] b.kind = "must"   -> Must(b.val, b.err)
      [] b.kind = "check"  -> IF Check(b.err).kind = "panic" THEN Check(b.err) ELSE Return(b.val)

(***************************************************************************)
(* The environment and the file system of the process.  Names and contents *)
(* are strings given as sequences of characters.                           *)
(***************************************************************************)
\* os.LookupEnv results: a variable that is not set, and one set to value
\* (possibly the empty string).
Unset == [set |-> FALSE]
Value(value) == [set |-> TRUE, value |-> value]

EnvKeys == {<<"A">>, <<"B">>}
EnvValues == {<<>>, <<"0">>}

\* The environment a process may start with.
InitialEnvs == [EnvKeys -> {Unset} \cup {Value(v) : v \in EnvValues}]

\* The characters of s as one string, for messages.
RECURSIVE Text(_)
Text(s) == IF s = <<>> THEN "" ELSE Head(s) \o Text(Tail(s))

\* A path with no file, and a regular file holding content.
NoFile == [exists |-> FALSE]
File(content) == [exists |-> TRUE, content |-> content]

Paths == {"config.json", "notes.txt"}
Contents == {<<>>, <<"a">>, <<"b", "b">>}

\* The file systems a process may start with.
InitialFiles == [Paths -> {NoFile} \cup {File(c) : c \in Contents}]

(***************************************************************************)
(* State.                                                                  *)
(***************************************************************************)
VARIABLES
    stack,      \* stack[g]: the call stack of goroutine g, innermost frame last
    panicking,  \* panicking[g]: the payload of the panic unwinding g, or NoPanic
    ret,        \* ret[g]: the top-level call g made last and how it ended (for a
                \* call with a frame of its own, the frame as it was left)
    exited,     \* the payload of the unrecovered panic that ended the process, or NoPanic
    ncalls,     \* ncalls[g]: top-level calls g has made
    stdout,     \* what has been printed on standard output, in order
    called,     \* the validators (by position in the chain) the running or
                \* last Input call has invoked so far, in order
    env,        \* env[key]: the value of the environment variable key of the
                \* process, or Unset
    files,      \* files[path]: the content of the file at path, or NoFile
    fileops,    \* the calls of WriteFile, AppendFile and ReadFile that have
                \* returned, in order
    nread       \* the number of lines of standard input that have been
                \* taken from the operating system so far

vars == <<stack, panicking, ret, exited, ncalls, stdout, called, env, files, fileops, nread>>

NoCall == [op |-> "none"]
Running(f) == [op |-> f.fn, args |-> f.args, out |-> [kind |-> "running"]]

Top(g) == stack[g][Len(stack[g])]
Pop(s) == SubSeq(s, 1, Len(s) - 1)
SetTop(s, f) == [s EXCEPT ![Len(s)] = f]

\* g is at top level, alive, and may make another call.
AtTopLevel(g) ==
    /\ exited = NoPanic
    /\ stack[g] = <<>>
    /\ panicking[g] = NoPanic
    /\ ncalls[g] < MaxCalls

\* g runs inside frame function fn at position pc.
InFrame(g, fn, pc) ==
    /\ exited = NoPanic
    /\ stack[g] # <<>>
    /\ Top(g).fn = fn
    /\ Top(g).pc = pc

\* The process has started: no goroutine has made a call yet.
Started ==
    /\ stack = [g \in Gor |-> <<>>]
    /\ panicking = [g \in Gor |-> NoPanic]
    /\ ret = [g \in Gor |-> NoCall]
    /\ exited = NoPanic
    /\ ncalls = [g \in Gor |-> 0]
    /\ stdout = <<>>
    /\ called = <<>>
    /\ fileops = <<>>
    /\ nread = 0

\* A process started with an empty environment, in an empty directory.
Init ==
    /\ Started
    /\ env = [key \in EnvKeys |-> Unset]
    /\ files = [path \in Paths |-> NoFile]

\* A process started with any environment.
InitEnv ==
    /\ Started
    /\ env \in InitialEnvs
    /\ files = [path \in Paths |-> NoFile]

\* A process started in a directory holding any files.
InitFiles ==
    /\ Started
    /\ env = [key \in EnvKeys |-> Unset]
    /\ files \in InitialFiles

(***************************************************************************)
(* Returning and panicking.                                                *)
(***************************************************************************)
\* The frame `done` of g returns x to its caller: the frame below it in
\* `rest`, or the goroutine's top level when `rest` is empty.
\*   - a Try frame waiting on fn() executes `return fn(), true`: v, ok = x, true
\*     and then runs its deferred function;
\*   - a TryOr frame waiting on Try receives the pair (x, ok).
DeliverReturn(g, rest, done, x) ==
    IF rest = <<>>
    THEN /\ stack' = [stack EXCEPT ![g] = <<>>]
         /\ ret' = [ret EXCEPT ![g] =
                [op |-> done.fn, args |-> done.args, out |-> Return(x), frame |-> done]]
    ELSE LET caller == rest[Len(rest)] IN
         /\ ret' = ret
         /\ stack' = [stack EXCEPT ![g] =
                CASE caller.fn = "Try" ->
                        SetTop(rest, [caller EXCEPT !.v = x, !.ok = TRUE, !.pc = "defer"])
                  [] caller.fn = "TryOr" ->
                        SetTop(rest, [caller EXCEPT !.x = x[1], !.ok = x[2], !.pc = "or"])]

\* Frames without deferred functions are left by a panic; unwinding stops at
\* the innermost frame that has one (a Try frame), whose deferred function
\* runs next.
RECURSIVE Unwind(_)
Unwind(s) ==
    IF s = <<>> THEN <<>>
    ELSE IF s[Len(s)].fn = "Try" THEN SetTop(s, [s[Len(s)] EXCEPT !.pc = "defer"])
    ELSE Unwind(Pop(s))

\* The frame `done` on top of `rest` panics with payload q.
RaisePanic(g, rest, done, q) ==
    /\ panicking' = [panicking EXCEPT ![g] = q]
    /\ stack' = [stack EXCEPT ![g] = Unwind(rest)]
    /\ ret' = IF Unwind(rest) = <<>>
              THEN [ret EXCEPT ![g] =
                      [op |-> done.fn, args |-> done.args, out |-> Panic(q), frame |-> done]]
              ELSE ret

\* Mutant of Recover: the panic state is looked up process-wide instead of
\* in the calling goroutine.
RecoverAny(g) ==
    IF \E h \in Gor : panicking[h] # NoPanic
    THEN panicking[CHOOSE h \in Gor : panicking[h] # NoPanic]
    ELSE Nil

\* recover() called by a deferred function of g: the payload of g's panic,
\* nil when g is not panicking.  Only g's own panic is visible to it.
Recover(g) == IF panicking[g] = NoPanic THEN Nil ELSE panicking[g]

(***************************************************************************)
(* Top-level calls of the straight-line helpers.                           *)
(***************************************************************************)
\* g calls a straight-line function whose outcome is out.
Finish(g, op, args, out) ==
    /\ ncalls' = [ncalls EXCEPT ![g] = @ + 1]
    /\ UNCHANGED <<stack, exited, stdout, called, env, files, fileops, nread>>
    /\ IF out.kind = "return"
       THEN /\ ret' = [ret EXCEPT ![g] = [op |-> op, args |-> args, out |-> out]]
            /\ panicking' = panicking
       ELSE \E q \in GoPanicValues(out.payload) :
            /\ ret' = [ret EXCEPT ![g] = [op |-> op, args |-> args, out |-> Panic(q)]]
            /\ panicking' = [panicking EXCEPT ![g] = q]

CallMust(g) ==
    /\ AtTopLevel(g)
    /\ \E v \in Vals, err \in Errs \cup {Nil} :
         Finish(g, "Must", [v |-> v, err |-> err], Must(v, err))

CallCheck(g) ==
    /\ AtTopLevel(g)
    /\ \E err \in Errs \cup {Nil} :
         Finish(g, "Check", [err |-> err], Check(err))

CallIgnore(g) ==
    /\ AtTopLevel(g)
    /\ \E err \in Errs \cup {Nil} :
         Finish(g, "Ignore", [err |-> err], Ignore(err))

CallOr(g) ==
    /\ AtTopLevel(g)
    /\ \E v \in Vals, ok \in BOOLEAN, fallback \in Vals :
         Finish(g, "Or", [v |-> v, ok |-> ok, fallback |-> fallback], Return(Or(v, ok, fallback)))

\* Code that has nothing to do with Try: it panics on its own.
CallPanic(g) ==
    /\ AtTopLevel(g)
    /\ \E p \in PanicArgs :
         Finish(g, "panic", [err |-> p], Panic(p))

(***************************************************************************)
(* Try.                                                                    *)
(***************************************************************************)
\* Entering Try: the named results v, ok hold their zero values and the
\* deferred function is registered.
TryFrame(body) ==
    [fn |-> "Try", args |-> [body |-> body], v |-> ZeroOf(body), ok |-> FALSE, pc |-> "call"]

TryOrFrame(body, d) ==
    [fn |-> "TryOr", args |-> [body |-> body, d |-> d], x |-> Zero, ok |-> FALSE, pc |-> "try"]

InputFrame(prompt, validators) ==
    [fn |-> "Input", args |-> [prompt |-> prompt, validators |-> validators],
     line |-> EmptyString, input |-> EmptyString, lineno |-> 0, i |-> 1, pc |-> "read"]

\* InputInt(prompt, defaultValue...): defaultValue holds no or one int.
InputIntFrame(prompt, defaultValue) ==
    [fn |-> "InputInt", args |-> [prompt |-> prompt, defaultValue |-> defaultValue],
     line |-> EmptyString, input |-> EmptyString, lineno |-> 0, pc |-> "read"]

\* g starts the top-level call whose frame is f.
Enter(g, f) ==
    /\ stack' = [stack EXCEPT ![g] = <<f>>]
    /\ ret' = [ret EXCEPT ![g] = Running(f)]
    /\ ncalls' = [ncalls EXCEPT ![g] = @ + 1]
    /\ called' = <<>>
    /\ UNCHANGED <<panicking, exited, stdout, env, files, fileops, nread>>

\* Try(fn) for a straight-line fn.
CallTry(g) ==
    /\ AtTopLevel(g)
    /\ \E body \in SimpleBodies : Enter(g, TryFrame(body))

\* Try(func() string { return Input(prompt, validators...) })
CallTryInput(g) ==
    /\ AtTopLevel(g)
    /\ ret[g] = NoCall
    /\ \E prompt \in Prompts, validators \in Chains :
         Enter(g, TryFrame([kind |-> "input", prompt |-> prompt, validators |-> validators]))

\* `return fn(), true`: fn runs.  When it returns, its result and true are
\* assigned to v, ok; when it panics, nothing is assigned.  Either way the
\* deferred function runs next.
TryCallFn(g) ==
    /\ InFrame(g, "Try", "call")
    /\ LET f == Top(g)
           body == f.args.body
       IN IF body.kind = "input"
          THEN /\ stack' = [stack EXCEPT ![g] =
                      Append(SetTop(@, [f EXCEPT !.pc = "wait"]),
                             InputFrame(body.prompt, body.validators))]
               /\ panicking' = panicking
          ELSE IF body.kind = "tryor"
          THEN /\ stack' = [stack EXCEPT ![g] =
                      Append(SetTop(@, [f EXCEPT !.pc = "wait"]),
                             TryOrFrame(body.body, body.d))]
               /\ panicking' = panicking
          ELSE LET out == EvalBody(body)
               IN IF out.kind = "return"
                  THEN /\ stack' = [stack EXCEPT ![g] =
                              SetTop(@, [f EXCEPT !.v = out.val, !.ok = TRUE, !.pc = "defer"])]
                       /\ panicking' = panicking
                  ELSE \E q \in GoPanicValues(out.payload) :
                       /\ stack' = [stack EXCEPT ![g] = SetTop(@, [f EXCEPT !.pc = "defer"])]
                       /\ panicking' = [panicking EXCEPT ![g] = q]
    /\ UNCHANGED <<ret, exited, ncalls, stdout, called, env, files, fileops, nread>>

\* Mutant of TryDeferred: the test on recover() is inverted.
TryDeferredInverted(g, ok) == IF Recover(g) = Nil THEN FALSE ELSE ok

\* The deferred function's body: `if recover() != nil { ok = false }`, the
\* value ok holds afterwards.
TryDeferred(g, ok) == IF Recover(g) # Nil THEN FALSE ELSE ok

\* Mutant of TryDefer: the deferred function does not call recover(), so a
\* panic of fn goes on unwinding past Try.
TryDeferNoRecover(g) ==
    /\ InFrame(g, "Try", "defer")
    /\ LET f == Top(g)
       IN IF panicking[g] # NoPanic
          THEN RaisePanic(g, Pop(stack[g]), f, panicking[g])
          ELSE /\ DeliverReturn(g, Pop(stack[g]), f, <<f.v, f.ok>>)
               /\ panicking' = panicking
    /\ UNCHANGED <<exited, ncalls, stdout, called, env, files, fileops, nread>>

\* Mutant of TryDefer: the deferred function reports the recovered panic on
\* standard output before Try returns.
TryDeferLogsPanic(g) ==
    /\ InFrame(g, "Try", "defer")
    /\ LET f == Top(g)
       IN DeliverReturn(g, Pop(stack[g]), f, <<f.v, TryDeferred(g, f.ok)>>)
    /\ panicking' = [panicking EXCEPT ![g] = NoPanic]
    /\ stdout' = IF Recover(g) # Nil THEN Append(stdout, Recover(g)) ELSE stdout
    /\ UNCHANGED <<exited, ncalls, called, env, files, fileops, nread>>

\* Mutant of TryDefer: the panic that recover() has reported stays in
\* progress after Try has returned.
TryDeferKeepsPanic(g) ==
    /\ InFrame(g, "Try", "defer")
    /\ LET f == Top(g)
       IN DeliverReturn(g, Pop(stack[g]), f, <<f.v, TryDeferred(g, f.ok)>>)
    /\ UNCHANGED <<panicking, exited, ncalls, stdout, called, env, files, fileops, nread>>

\* The deferred function runs and Try returns (v, ok).  Calling recover()
\* stops g's panic, whatever it returns.
TryDefer(g) ==
    /\ InFrame(g, "Try", "defer")
    /\ LET f == Top(g)
       IN DeliverReturn(g, Pop(stack[g]), f, <<f.v, TryDeferred(g, f.ok)>>)
    /\ panicking' = [panicking EXCEPT ![g] = NoPanic]
    /\ UNCHANGED <<exited, ncalls, stdout, called, env, files, fileops, nread>>

(***************************************************************************)
(* x, ok := Try(fn); Or(x, ok, d)                                          *)
(***************************************************************************)
CallTryOr(g) ==
    /\ AtTopLevel(g)
    /\ \E body \in SimpleBodies, d \in Vals : Enter(g, TryOrFrame(body, d))

\* Try(func() int { x, ok := Try(fn); return Or(x, ok, d) })
CallTryNested(g) ==
    /\ AtTopLevel(g)
    /\ \E body \in SimpleBodies, d \in Vals :
         Enter(g, TryFrame([kind |-> "tryor", body |-> body, d |-> d]))

TryOrCallTry(g) ==
    /\ InFrame(g, "TryOr", "try")
    /\ stack' = [stack EXCEPT ![g] =
            Append(SetTop(@, [Top(g) EXCEPT !.pc = "wait"]), TryFrame(Top(g).args.body))]
    /\ UNCHANGED <<panicking, ret, exited, ncalls, stdout, called, env, files, fileops, nread>>

TryOrCallOr(g) ==
    /\ InFrame(g, "TryOr", "or")
    /\ LET f == Top(g)
       IN DeliverReturn(g, Pop(stack[g]), f, Or(f.x, f.ok, f.args.d))
    /\ UNCHANGED <<panicking, exited, ncalls, stdout, called, env, files, fileops, nread>>

(***************************************************************************)
(* Input.                                                                  *)
(***************************************************************************)
\* One Input call is followed from a fresh process: Input keeps nothing
\* from one call to the next.
CallInput(g) ==
    /\ AtTopLevel(g)
    /\ ret[g] = NoCall
    /\ \E prompt \in Prompts, validators \in Chains : Enter(g, InputFrame(prompt, validators))

\* What a failed scanner.Scan() makes inputRaw panic with: the scanner's
\* error, or the string "input error" at end of input.
ScanFailures == {ErrorsNew("read /dev/stdin: input/output error"), StringValue("input error")}

\* Lines of digits, letters and white space, for the calls that read a number.
IntLines == UNION {[1 .. k -> {"1", "a", " "}] : k \in 0 .. MaxLineLen}

\* The lines a call of fn is given in the model.
StdinLines(fn) == IF fn = "InputInt" THEN IntLines ELSE Lines

\* input := inputRaw(prompt), called by Input or InputInt: the prompt is
\* printed unless empty, and a new bufio.Scanner on os.Stdin scans one line
\* (scanner.Text(), kept in `line`), which is trimmed.  The scanner fills
\* its buffer with what standard input hands over at that moment, one line
\* or several: it returns the first of them, and the others are dropped
\* with the scanner when inputRaw returns.  `lineno` is the position in the
\* stream of the line returned.
InputRaw(g) ==
    /\ InFrame(g, "Input", "read") \/ InFrame(g, "InputInt", "read")
    /\ LET f == Top(g)
       IN /\ stdout' = IF f.args.prompt # "" THEN Append(stdout, f.args.prompt) ELSE stdout
          /\ \/ /\ nread < MaxStdin
                /\ \E line \in StdinLines(f.fn), ahead \in 1 .. (MaxStdin - nread) :
                      /\ nread' = nread + ahead
                      /\ stack' = [stack EXCEPT ![g] =
                              SetTop(@, [f EXCEPT !.line = line, !.input = TrimSpace(line),
                                                !.lineno = nread + 1,
                                                !.pc = IF f.fn = "Input" THEN "validate"
                                                                         ELSE "parse"])]
                      /\ UNCHANGED <<panicking, ret>>
             \/ /\ nread' = nread
                /\ \E p \in ScanFailures : RaisePanic(g, Pop(stack[g]), f, p)
    /\ UNCHANGED <<exited, ncalls, called, env, files, fileops>>

\* Mutant of InputValidate: a failure does not end the loop; only the error
\* of the last validator of the chain is looked at.
InputValidateLast(g) ==
    /\ InFrame(g, "Input", "validate")
    /\ Top(g).i <= Len(Top(g).args.validators)
    /\ LET f == Top(g)
           err == Validate(f.args.validators[f.i], f.input)
       IN /\ called' = Append(called, f.i)
          /\ IF err # Nil /\ f.i = Len(f.args.validators)
             THEN RaisePanic(g, Pop(stack[g]), f, ErrorfWrap("invalid string input: ", err))
             ELSE /\ stack' = [stack EXCEPT ![g] = SetTop(@, [f EXCEPT !.i = @ + 1])]
                  /\ UNCHANGED <<panicking, ret>>
    /\ UNCHANGED <<exited, ncalls, stdout, env, files, fileops, nread>>

\* Mutant of InputValidate: every validator of the chain is invoked before
\* the errors are looked at; the first error is the one reported.
InputValidateCollect(g) ==
    /\ InFrame(g, "Input", "validate")
    /\ Top(g).i <= Len(Top(g).args.validators)
    /\ LET f == Top(g)
           n == Len(f.args.validators)
           failing == {j \in 1 .. n : Validate(f.args.validators[j], f.input) # Nil}
       IN /\ called' = [j \in 1 .. n |-> j]
          /\ IF failing # {}
             THEN LET first == CHOOSE j \in failing : \A k \in failing : j <= k
                  IN RaisePanic(g, Pop(stack[g]), f,
                         ErrorfWrap("invalid string input: ",
                                    Validate(f.args.validators[first], f.input)))
             ELSE /\ stack' = [stack EXCEPT ![g] = SetTop(@, [f EXCEPT !.i = n + 1])]
                  /\ UNCHANGED <<panicking, ret>>
    /\ UNCHANGED <<exited, ncalls, stdout, env, files, fileops, nread>>

\* One iteration of `for _, validate := range validators`.
InputValidate(g) ==
    /\ InFrame(g, "Input", "validate")
    /\ Top(g).i <= Len(Top(g).args.validators)
    /\ LET f == Top(g)
           err == Validate(f.args.validators[f.i], f.input)
       IN /\ called' = Append(called, f.i)
          /\ IF err # Nil
             THEN RaisePanic(g, Pop(stack[g]), f, ErrorfWrap("invalid string input: ", err))
             ELSE /\ stack' = [stack EXCEPT ![g] = SetTop(@, [f EXCEPT !.i = @ + 1])]
                  /\ UNCHANGED <<panicking, ret>>
    /\ UNCHANGED <<exited, ncalls, stdout, env, files, fileops, nread>>

\* `return input`, after the loop.
InputReturn(g) ==
    /\ InFrame(g, "Input", "validate")
    /\ Top(g).i > Len(Top(g).args.validators)
    /\ DeliverReturn(g, Pop(stack[g]), Top(g), Top(g).input)
    /\ UNCHANGED <<panicking, exited, ncalls, stdout, called, env, files, fileops, nread>>

(***************************************************************************)
(* A panic that no deferred function of its goroutine recovered ends the   *)
(* whole process.                                                          *)
(***************************************************************************)
Crash(g) ==
    /\ exited = NoPanic
    /\ panicking[g] # NoPanic
    /\ stack[g] = <<>>
    /\ exited' = panicking[g]
    /\ UNCHANGED <<stack, panicking, ret, ncalls, stdout, called, env, files, fileops, nread>>

(***************************************************************************)
(* env.go: EnvFile and MustEnv.                                            *)
(***************************************************************************)
\* strings.HasPrefix(s, c) for a one-character prefix c.
HasPrefix(s, c) == s # <<>> /\ Head(s) = c

\* strings.Cut(s, sep): s around the first sep, and whether sep was found.
Cut(s, sep) ==
    IF \E i \in 1 .. Len(s) : s[i] = sep
    THEN LET i == CHOOSE i \in 1 .. Len(s) :
                      s[i] = sep /\ \A j \in 1 .. (i - 1) : s[j] # sep
         IN [before |-> SubSeq(s, 1, i - 1), after |-> SubSeq(s, i + 1, Len(s)), found |-> TRUE]
    ELSE [before |-> s, after |-> <<>>, found |-> FALSE]

\* The verb %q, for a string without characters to escape.
Quote(s) == "\"" \o Text(s) \o "\""

\* os.LookupEnv(key) in environment e.
LookupEnv(e, key) == IF key \in DOMAIN e THEN e[key] ELSE Unset

\* os.Setenv(key, value) fails (EINVAL) for an empty key.
SetenvFails(key) == key = <<>>

\* The lines an env file is made of.
EnvLines ==
    { <<>>,                                  \* an empty line
      <<" ", "#", "c">>,                     \* a comment line
      <<"A", "=", "1">>,
      <<"A", "=", "2">>,
      <<" ", "B", " ", "=", " ", "2", " ">>, \* white space around key and value
      <<"B", "=", "1", " ", "#", "c">>,      \* a value followed by # text
      <<"A", "=">>,                          \* an empty value
      <<"A">>,                               \* no =
      <<"=", "1">> }                         \* an empty key

EnvPaths == {".env", ".env.local"}

\* What scanner.Err() may hold when scanner.Scan() has returned false.
EnvScanErrors == {ErrorsNew("read .env: input/output error")}

\* Mutant of EnvLine: the test of os.LookupEnv is inverted, so that only
\* variables that exist are set.
EnvLineInverted(e, text) ==
    LET line == TrimSpace(text)
    IN IF line = <<>> \/ HasPrefix(line, "#")
       THEN [env |-> e, err |-> Nil]
       ELSE LET cut == Cut(line, "=")
                key == TrimSpace(cut.before)
                value == TrimSpace(cut.after)
            IN IF ~cut.found
               THEN [env |-> e, err |-> ErrorsNew("invalid env line: " \o Quote(line))]
               ELSE IF ~LookupEnv(e, key).set
               THEN [env |-> e, err |-> Nil]
               ELSE IF SetenvFails(key)
               THEN [env |-> e, err |-> ErrorsNew("failed to set env " \o Text(key))]
               ELSE [env |-> [e EXCEPT ![key] = Value(value)], err |-> Nil]

\* Mutant of EnvLine: the variable is set without looking it up first.
EnvLineOverrides(e, text) ==
    LET line == TrimSpace(text)
    IN IF line = <<>> \/ HasPrefix(line, "#")
       THEN [env |-> e, err |-> Nil]
       ELSE LET cut == Cut(line, "=")
                key == TrimSpace(cut.before)
                value == TrimSpace(cut.after)
            IN IF ~cut.found
               THEN [env |-> e, err |-> ErrorsNew("invalid env line: " \o Quote(line))]
               ELSE IF SetenvFails(key)
               THEN [env |-> e, err |-> ErrorsNew("failed to set env " \o Text(key))]
               ELSE [env |-> [e EXCEPT ![key] = Value(value)], err |-> Nil]

\* The body of `for scanner.Scan()` for the line text, in environment e:
\* the environment it leaves and the error it panics with, Nil when it
\* goes on to the next line.
EnvLine(e, text) ==
    LET line == TrimSpace(text)
    IN IF line = <<>> \/ HasPrefix(line, "#")
       THEN [env |-> e, err |-> Nil]
       ELSE LET cut == Cut(line, "=")
                key == TrimSpace(cut.before)
                value == TrimSpace(cut.after)
            IN IF ~cut.found
               THEN [env |-> e, err |-> ErrorsNew("invalid env line: " \o Quote(line))]
               ELSE IF LookupEnv(e, key).set
               THEN [env |-> e, err |-> Nil]
               ELSE IF SetenvFails(key)
               THEN [env |-> e, err |-> ErrorsNew("failed to set env " \o Text(key))]
               ELSE [env |-> [e EXCEPT ![key] = Value(value)], err |-> Nil]

\* Mutant of MustEnv: a variable set to the empty string is returned.
MustEnvAllowsEmpty(e, key) ==
    IF ~LookupEnv(e, key).set
    THEN Panic(ErrorsNew("required env var missing: " \o Text(key)))
    ELSE Return(LookupEnv(e, key).value)

\* MustEnv(key) in environment e.
MustEnv(e, key) ==
    IF ~LookupEnv(e, key).set \/ LookupEnv(e, key).value = <<>>
    THEN Panic(ErrorsNew("required env var missing: " \o Text(key)))
    ELSE Return(LookupEnv(e, key).value)

\* `env0` keeps the environment as it is when EnvFile is called.
EnvFileFrame(path) ==
    [fn |-> "EnvFile", args |-> [path |-> path], lines |-> <<>>, env0 |-> env, pc |-> "open"]

CallEnvFile(g) ==
    /\ AtTopLevel(g)
    /\ \E path \in EnvPaths : Enter(g, EnvFileFrame(path))

\* os.Open(path): the file is opened, or EnvFile panics.
EnvFileOpen(g) ==
    /\ InFrame(g, "EnvFile", "open")
    /\ LET f == Top(g)
       IN \/ /\ stack' = [stack EXCEPT ![g] = SetTop(@, [f EXCEPT !.pc = "scan"])]
             /\ UNCHANGED <<panicking, ret>>
          \/ RaisePanic(g, Pop(stack[g]), f,
                        ErrorsNew("cannot open env file: " \o f.args.path))
    /\ UNCHANGED <<exited, ncalls, stdout, called, env, files, fileops, nread>>

\* Mutant of EnvFileScan: a line that makes EnvFile panic also undoes what
\* the earlier lines of the file have set.
EnvFileScanRollback(g) ==
    /\ InFrame(g, "EnvFile", "scan")
    /\ Len(Top(g).lines) < MaxEnvLines
    /\ \E text \in EnvLines :
         LET f == [Top(g) EXCEPT !.lines = Append(@, text)]
             r == EnvLine(env, text)
         IN IF r.err # Nil
            THEN env' = f.env0 /\ RaisePanic(g, Pop(stack[g]), f, r.err)
            ELSE /\ env' = r.env
                 /\ stack' = [stack EXCEPT ![g] = SetTop(@, f)]
                 /\ UNCHANGED <<panicking, ret>>
    /\ UNCHANGED <<exited, ncalls, stdout, called, files, fileops, nread>>

\* scanner.Scan() returns true: the next line of the file (kept in `lines`)
\* goes through the body of the loop.
EnvFileScan(g) ==
    /\ InFrame(g, "EnvFile", "scan")
    /\ Len(Top(g).lines) < MaxEnvLines
    /\ \E text \in EnvLines :
         LET f == [Top(g) EXCEPT !.lines = Append(@, text)]
             r == EnvLine(env, text)
         IN /\ env' = r.env
            /\ IF r.err # Nil
               THEN RaisePanic(g, Pop(stack[g]), f, r.err)
               ELSE /\ stack' = [stack EXCEPT ![g] = SetTop(@, f)]
                    /\ UNCHANGED <<panicking, ret>>
    /\ UNCHANGED <<exited, ncalls, stdout, called, files, fileops, nread>>

\* scanner.Scan() returns false: at the end of the file EnvFile returns, on
\* a read error it panics with the error.
EnvFileEnd(g) ==
    /\ InFrame(g, "EnvFile", "scan")
    /\ LET f == Top(g)
       IN \/ /\ DeliverReturn(g, Pop(stack[g]), f, NoValue)
             /\ panicking' = panicking
          \/ \E err \in EnvScanErrors : RaisePanic(g, Pop(stack[g]), f, err)
    /\ UNCHANGED <<exited, ncalls, stdout, called, env, files, fileops, nread>>

CallMustEnv(g) ==
    /\ AtTopLevel(g)
    /\ \E key \in EnvKeys : Finish(g, "MustEnv", [key |-> key], MustEnv(env, key))

(***************************************************************************)
(* SpecEnv: a process loads env files and reads required variables.        *)
(***************************************************************************)
NextEnv ==
    \/ CallEnvFile("main")
    \/ EnvFileOpen("main")
    \/ EnvFileScan("main")
    \/ EnvFileEnd("main")
    \/ CallMustEnv("main")
    \/ Crash("main")

SpecEnv == InitEnv /\ [][NextEnv]_vars

(***************************************************************************)
(* file.go: CreateFile.                                                    *)
(***************************************************************************)
\* The error of a system call that fails for a reason other than the file
\* not existing.
FileErrors == {ErrorsNew("permission denied")}

\* Writing data at offset 0 of a file holding old: the bytes of old beyond
\* data stay (the file was opened without O_TRUNC).
WriteAt0(old, data) ==
    IF Len(data) >= Len(old) THEN data ELSE data \o SubSeq(old, Len(data) + 1, Len(old))

CreateFileFrame(path, content) ==
    [fn |-> "CreateFile", args |-> [path |-> path, content |-> content], pc |-> "stat"]

CallCreateFile(g) ==
    /\ AtTopLevel(g)
    /\ \E path \in Paths, content \in Contents : Enter(g, CreateFileFrame(path, content))

\* Mutant of CreateFileStat: the file is opened and written whether it
\* exists or not.
CreateFileStatSkipped(g) ==
    /\ InFrame(g, "CreateFile", "stat")
    /\ stack' = [stack EXCEPT ![g] = SetTop(@, [Top(g) EXCEPT !.pc = "open"])]
    /\ UNCHANGED <<panicking, ret, exited, ncalls, stdout, called, env, files, fileops, nread>>

\* os.Stat(path): err == nil when the file exists, and CreateFile returns;
\* os.IsNotExist(err) when it does not, and CreateFile goes on; any other
\* error makes CreateFile panic.
CreateFileStat(g) ==
    /\ InFrame(g, "CreateFile", "stat")
    /\ LET f == Top(g)
       IN \/ /\ files[f.args.path].exists
             /\ DeliverReturn(g, Pop(stack[g]), f, NoValue)
             /\ panicking' = panicking
          \/ /\ ~files[f.args.path].exists
             /\ stack' = [stack EXCEPT ![g] = SetTop(@, [f EXCEPT !.pc = "open"])]
             /\ UNCHANGED <<panicking, ret>>
          \/ \E err \in FileErrors :
                RaisePanic(g, Pop(stack[g]), f,
                    ErrorfWrap("cannot check file " \o f.args.path \o ": ", err))
    /\ UNCHANGED <<exited, ncalls, stdout, called, env, files, fileops, nread>>

\* os.OpenFile(path, os.O_CREATE|os.O_WRONLY, 0644): the file is created
\* empty when it does not exist and opened as it is when it does.
CreateFileOpen(g) ==
    /\ InFrame(g, "CreateFile", "open")
    /\ LET f == Top(g)
       IN \/ /\ files' = IF files[f.args.path].exists THEN files
                         ELSE [files EXCEPT ![f.args.path] = File(<<>>)]
             /\ stack' = [stack EXCEPT ![g] = SetTop(@, [f EXCEPT !.pc = "write"])]
             /\ UNCHANGED <<panicking, ret>>
          \/ /\ files' = files
             /\ \E err \in FileErrors :
                   RaisePanic(g, Pop(stack[g]), f,
                       ErrorfWrap("cannot create file " \o f.args.path \o ": ", err))
    /\ UNCHANGED <<exited, ncalls, stdout, called, env, fileops, nread>>

\* f.WriteString(content), then the deferred f.Close(): the content is
\* written from offset 0 and CreateFile returns; a write that fails has
\* written some of the content, possibly none, and CreateFile panics.
CreateFileWrite(g) ==
    /\ InFrame(g, "CreateFile", "write")
    /\ LET f == Top(g)
           old == files[f.args.path].content
       IN \/ /\ files' = [files EXCEPT ![f.args.path] = File(WriteAt0(old, f.args.content))]
             /\ DeliverReturn(g, Pop(stack[g]), f, NoValue)
             /\ panicking' = panicking
          \/ \E k \in 0 .. (Len(f.args.content) - 1), err \in FileErrors :
                /\ files' = [files EXCEPT ![f.args.path] =
                                File(WriteAt0(old, SubSeq(f.args.content, 1, k)))]
                /\ RaisePanic(g, Pop(stack[g]), f,
                       ErrorfWrap("cannot write to file " \o f.args.path \o ": ", err))
    /\ UNCHANGED <<exited, ncalls, stdout, called, env, fileops, nread>>

(***************************************************************************)
(* SpecFile: a process creates files, one call after the other.            *)
(***************************************************************************)
NextFile ==
    \/ CallCreateFile("main")
    \/ CreateFileStat("main")
    \/ CreateFileOpen("main")
    \/ CreateFileWrite("main")
    \/ Crash("main")

SpecFile == InitFiles /\ [][NextFile]_vars

(***************************************************************************)
(* file.go: ReadFile, WriteFile, AppendFile.                               *)
(***************************************************************************)
\* g is at top level and alive.
Idle(g) ==
    /\ exited = NoPanic
    /\ stack[g] = <<>>
    /\ panicking[g] = NoPanic

\* What os.ReadFile fails with when the file does not exist.
NotExistError == ErrorsNew("no such file or directory")

\* The proper prefixes of data: what a write that fails may have written.
Prefixes(data) == {SubSeq(data, 1, k) : k \in 0 .. (Len(data) - 1)}

\* Writing data to a file holding old that was opened with O_APPEND.
AppendAtEnd(old, data) == old \o data

\* Mutant of WriteFileTo: the file is opened without O_TRUNC.
WriteFileNoTrunc(fs, path, content) ==
    [fs EXCEPT ![path] = File(IF fs[path].exists THEN WriteAt0(fs[path].content, content)
                                                  ELSE content)]

\* The file system after os.WriteFile(path, content, 0644) has succeeded:
\* the file is created or truncated, and holds content.
WriteFileTo(fs, path, content) == [fs EXCEPT ![path] = File(content)]

\* The file system after AppendFile(path, content) has succeeded: the file
\* is created empty when it does not exist, and content is added at its end.
AppendFileTo(fs, path, content) ==
    [fs EXCEPT ![path] = File(AppendAtEnd(IF fs[path].exists THEN fs[path].content ELSE <<>>,
                                          content))]

\* g's call op(args) of a function of file.go ends with out, leaving the
\* file system fs.
FinishFileOp(g, op, args, out, fs) ==
    /\ ncalls' = [ncalls EXCEPT ![g] = @ + 1]
    /\ ret' = [ret EXCEPT ![g] = [op |-> op, args |-> args, out |-> out]]
    /\ panicking' = IF out.kind = "panic" THEN [panicking EXCEPT ![g] = out.payload]
                    ELSE panicking
    /\ files' = fs
    /\ fileops' = IF out.kind = "return"
                  THEN Append(fileops, [op |-> op, args |-> args, out |-> out])
                  ELSE fileops
    /\ UNCHANGED <<stack, exited, stdout, called, env, nread>>

\* WriteFile(path, content): os.WriteFile succeeds, or fails at opening
\* the file (nothing changes) or at writing (the file has been truncated
\* and holds part of content), and then WriteFile panics.
CallWriteFile(g) ==
    /\ Idle(g)
    /\ ncalls[g] < MaxFileOps
    /\ \E path \in Paths, content \in Contents :
         LET args == [path |-> path, content |-> content]
             failed(err) == Panic(ErrorfWrap("cannot write file " \o path \o ": ", err))
         IN \/ FinishFileOp(g, "WriteFile", args, Return(NoValue),
                            WriteFileTo(files, path, content))
            \/ \E err \in FileErrors :
                  FinishFileOp(g, "WriteFile", args, failed(err), files)
            \/ \E err \in FileErrors, part \in Prefixes(content) :
                  FinishFileOp(g, "WriteFile", args, failed(err),
                               WriteFileTo(files, path, part))

\* AppendFile(path, content): os.OpenFile with O_APPEND|O_CREATE|O_WRONLY
\* and f.WriteString succeed, or one of them fails and AppendFile panics.
CallAppendFile(g) ==
    /\ Idle(g)
    /\ ncalls[g] < MaxFileOps
    /\ \E path \in Paths, content \in Contents :
         LET args == [path |-> path, content |-> content]
             failed(err) == Panic(ErrorfWrap("cannot append to file " \o path \o ": ", err))
         IN \/ FinishFileOp(g, "AppendFile", args, Return(NoValue),
                            AppendFileTo(files, path, content))
            \/ \E err \in FileErrors :
                  FinishFileOp(g, "AppendFile", args, failed(err), files)
            \/ \E err \in FileErrors, part \in Prefixes(content) :
                  FinishFileOp(g, "AppendFile", args, failed(err),
                               AppendFileTo(files, path, part))

\* ReadFile(path): the content of the file, or a panic when os.ReadFile
\* fails (the file does not exist, or another error).
CallReadFile(g) ==
    /\ Idle(g)
    /\ ncalls[g] < MaxFileOps
    /\ \E path \in Paths :
         LET args == [path |-> path]
             failed(err) == Panic(ErrorfWrap("cannot read file " \o path \o ": ", err))
         IN \/ /\ files[path].exists
               /\ FinishFileOp(g, "ReadFile", args, Return(files[path].content), files)
            \/ /\ ~files[path].exists
               /\ FinishFileOp(g, "ReadFile", args, failed(NotExistError), files)
            \/ \E err \in FileErrors :
                  FinishFileOp(g, "ReadFile", args, failed(err), files)

(***************************************************************************)
(* SpecFileOps: a process writes, appends to and reads files, one call     *)
(* after the other.                                                        *)
(***************************************************************************)
NextFileOps ==
    \/ CallWriteFile("main")
    \/ CallAppendFile("main")
    \/ CallReadFile("main")
    \/ Crash("main")

SpecFileOps == Init /\ [][NextFileOps]_vars

(***************************************************************************)
(* random.go: RandInt.  Go's int is a two's complement integer; here it    *)
(* has IntBits bits, and arithmetic wraps around as Go's does.             *)
(***************************************************************************)
MinInt == 0 - 2 ^ (IntBits - 1)
MaxInt == 2 ^ (IntBits - 1) - 1
Ints == MinInt .. MaxInt

\* The int that the mathematical integer x wraps around to.
Wrap(x) == ((x - MinInt) % (2 ^ IntBits)) + MinInt

\* rand.Intn(n): a number of 0 .. n-1, or a panic when n <= 0.
Intn(n) ==
    IF n <= 0 THEN {Panic(StringValue("invalid argument to Intn"))}
    ELSE {Return(r) : r \in 0 .. (n - 1)}

\* RandInt(min, max): the outcomes it may have.
RandInt(min, max) ==
    IF min > max
    THEN {Panic(StringValue("min cannot be greater than max"))}
    ELSE {IF r.kind = "panic" THEN r ELSE Return(Wrap(r.val + min)) :
             r \in Intn(Wrap(Wrap(max - min) + 1))}

CallRandInt(g) ==
    /\ AtTopLevel(g)
    /\ \E min \in Ints, max \in Ints :
         \E out \in RandInt(min, max) :
            Finish(g, "RandInt", [min |-> min, max |-> max], out)

(***************************************************************************)
(* SpecRandom: a process draws random numbers.                             *)
(***************************************************************************)
NextRandom ==
    \/ CallRandInt("main")
    \/ Crash("main")

SpecRandom == Init /\ [][NextRandom]_vars

(***************************************************************************)
(* http.go: GetBody and GetJSON[T], T = struct { A int; B int }.  A        *)
(* response body is a JSON document given by its members, in order, or a   *)
(* text that is no JSON document.                                          *)
(***************************************************************************)
StatusOK == 200

\* The redirects http.Get follows before it gives up.
MaxRedirects == 10

Urls == {"/a", "/b"}

\* Members of a JSON object: a name and a number or a string.
Members == {[name |-> "A", num |-> TRUE,  val |-> 1],
            [name |-> "A", num |-> FALSE, val |-> 0],
            [name |-> "B", num |-> TRUE,  val |-> 2]}

\* A well-formed document, and one cut off after its members.
Doc(members) == [valid |-> TRUE, members |-> members]
CutOff(members) == [valid |-> FALSE, members |-> members]

Bodies ==
    {Doc(ms) : ms \in UNION {[1 .. k -> Members] : k \in 0 .. MaxMembers}}
    \cup {CutOff(<<>>), CutOff(<<[name |-> "A", num |-> TRUE, val |-> 1]>>)}

\* The empty string.
NoBody == CutOff(<<>>)

\* What a server answers to GET url: a status, a body and, for a redirect,
\* the Location; status 0 stands for a request that gets no answer.
Responses ==
    {[status |-> StatusOK, body |-> b, location |-> ""] : b \in Bodies}
    \cup {[status |-> 302, body |-> NoBody, location |-> u] : u \in Urls}
    \cup {[status |-> s, body |-> NoBody, location |-> ""] : s \in {0, 304, 404}}

Webs == [Urls -> Responses]

\* http.Get(url): the default client follows a redirect that names a
\* Location, up to MaxRedirects of them; the response and the error.
RECURSIVE HttpGet(_, _, _)
HttpGet(web, url, followed) ==
    LET resp == web[url]
    IN IF resp.status = 0
       THEN [resp |-> resp, err |-> ErrorsNew("Get \"" \o url \o "\": connection refused")]
       ELSE IF resp.status = 302 /\ resp.location # ""
       THEN IF followed >= MaxRedirects
            THEN [resp |-> resp,
                  err |-> ErrorsNew("Get \"" \o resp.location \o "\": stopped after 10 redirects")]
            ELSE HttpGet(web, resp.location, followed + 1)
       ELSE [resp |-> resp, err |-> Nil]

\* What io.ReadAll(resp.Body) may fail with.
ReadErrors == {ErrorsNew("unexpected EOF")}

\* GetBody(url) against the servers web: the pairs (body, err) it may
\* return.  A body that was read is returned as it is.
GetBody(web, url) ==
    LET got == HttpGet(web, url, 0)
    IN IF got.err # Nil THEN {<<NoBody, got.err>>}
       ELSE IF got.resp.status # StatusOK
       THEN {<<NoBody, ErrorsNew("status code: " \o FormatInt(got.resp.status))>>}
       ELSE {<<got.resp.body, Nil>>} \cup {<<NoBody, err>> : err \in ReadErrors}

\* var result T
ZeroT == [A |-> 0, B |-> 0]

SyntaxError == ErrorsNew("unexpected end of JSON input")
UnmarshalTypeError(name) ==
    ErrorsNew("json: cannot unmarshal string into Go struct field T." \o name \o " of type int")

\* The members of a valid document are decoded in order into result: a
\* number is stored in its field, a string is skipped and the error for the
\* earliest such member is kept; decoding goes on to the end.
RECURSIVE Decode(_, _, _)
Decode(members, result, err) ==
    IF members = <<>> THEN [result |-> result, err |-> err]
    ELSE LET m == Head(members)
         IN IF m.num
            THEN Decode(Tail(members), [result EXCEPT ![m.name] = m.val], err)
            ELSE Decode(Tail(members), result,
                        IF err = Nil THEN UnmarshalTypeError(m.name) ELSE err)

\* json.Unmarshal([]byte(body), &result): the syntax of the whole body is
\* checked before anything is stored.
Unmarshal(body, result) ==
    IF ~body.valid THEN [result |-> result, err |-> SyntaxError]
    ELSE Decode(body.members, result, Nil)

\* GetJSON[T](url): the pairs (result, err) it may return.
GetJSON(web, url) ==
    {IF r[2] # Nil THEN <<ZeroT, r[2]>>
     ELSE <<Unmarshal(r[1], ZeroT).result, Unmarshal(r[1], ZeroT).err>> :
        r \in GetBody(web, url)}

CallGetBody(g) ==
    /\ AtTopLevel(g)
    /\ ret[g] = NoCall
    /\ \E web \in Webs, url \in Urls :
         \E r \in GetBody(web, url) :
            Finish(g, "GetBody", [web |-> web, url |-> url], Return(r))

CallGetJSON(g) ==
    /\ AtTopLevel(g)
    /\ ret[g] = NoCall
    /\ \E web \in Webs, url \in Urls :
         \E r \in GetJSON(web, url) :
            Finish(g, "GetJSON", [web |-> web, url |-> url], Return(r))

(***************************************************************************)
(* SpecHttp: a process makes a GET request.                                *)
(***************************************************************************)
NextHttp ==
    \/ CallGetBody("main")
    \/ CallGetJSON("main")

SpecHttp == Init /\ [][NextHttp]_vars

(***************************************************************************)
(* input.go: InputInt, and input calls made one after the other.           *)
(***************************************************************************)
IsDigit(c) == c \in {"0", "1", "2", "3", "4", "5", "6", "7", "8", "9"}

DigitValue(c) ==
    CASE c = "0" -> 0 [] c = "1" -> 1 [] c = "2" -> 2 [] c = "3" -> 3 [] c = "4" -> 4
      [] c = "5" -> 5 [] c = "6" -> 6 [] c = "7" -> 7 [] c = "8" -> 8 [] c = "9" -> 9

RECURSIVE AtoiNat(_)
AtoiNat(s) ==
    IF s = <<>> THEN 0 ELSE AtoiNat(SubSeq(s, 1, Len(s) - 1)) * 10 + DigitValue(s[Len(s)])

\* strconv.Atoi(s): an optional sign followed by one or more digits.
Atoi(s) ==
    LET digits == IF s # <<>> /\ Head(s) \in {"+", "-"} THEN Tail(s) ELSE s
    IN IF digits # <<>> /\ \A i \in 1 .. Len(digits) : IsDigit(digits[i])
       THEN [val |-> IF Head(s) = "-" THEN 0 - AtoiNat(digits) ELSE AtoiNat(digits),
             ok |-> TRUE]
       ELSE [val |-> 0, ok |-> FALSE]

\* Input(prompt), again and again.
CallInputAgain(g) ==
    /\ AtTopLevel(g)
    /\ \E prompt \in Prompts : Enter(g, InputFrame(prompt, <<>>))

CallInputInt(g) ==
    /\ AtTopLevel(g)
    /\ \E prompt \in Prompts, defaultValue \in {<<>>, <<Zero>>} :
         Enter(g, InputIntFrame(prompt, defaultValue))

\* value, err := strconv.Atoi(input): the value is returned; when input is
\* no number the default is, and without a default InputInt panics.
InputIntParse(g) ==
    /\ InFrame(g, "InputInt", "parse")
    /\ LET f == Top(g)
           n == Atoi(f.input)
       IN IF n.ok THEN DeliverReturn(g, Pop(stack[g]), f, n.val) /\ panicking' = panicking
          ELSE IF Len(f.args.defaultValue) > 0
          THEN DeliverReturn(g, Pop(stack[g]), f, f.args.defaultValue[1])
               /\ panicking' = panicking
          ELSE RaisePanic(g, Pop(stack[g]), f,
                          ErrorsNew("invalid integer input: " \o Quote(f.input)))
    /\ UNCHANGED <<exited, ncalls, stdout, called, env, files, fileops, nread>>

(***************************************************************************)
(* SpecStdin: a process asks for one input after the other.                *)
(***************************************************************************)
NextStdin ==
    \/ CallInputAgain("main")
    \/ CallInputInt("main")
    \/ InputRaw("main")
    \/ InputReturn("main")
    \/ InputIntParse("main")
    \/ Crash("main")

SpecStdin == Init /\ [][NextStdin]_vars

(***************************************************************************)
(* SpecFileConc: two goroutines create files at the same time, in a        *)
(* directory that is empty at the start.                                   *)
(***************************************************************************)
NextFileConc ==
    \/ \E g \in Gor : CallCreateFile(g)
    \/ \E g \in Gor : CreateFileStat(g)
    \/ \E g \in Gor : CreateFileOpen(g)
    \/ \E g \in Gor : CreateFileWrite(g)
    \/ \E g \in Gor : Crash(g)

SpecFileConc == Init /\ [][NextFileConc]_vars

(***************************************************************************)
(* SpecNested: Try called inside the closure of another Try, and again     *)
(* afterwards.                                                             *)
(***************************************************************************)
NextNested ==
    \/ CallTryNested("main")
    \/ CallTry("main")
    \/ TryCallFn("main")
    \/ TryOrCallTry("main")
    \/ TryOrCallOr("main")
    \/ TryDefer("main")

SpecNested == Init /\ [][NextNested]_vars

(***************************************************************************)
(* Spec: the error helpers, called by the main goroutine while another     *)
(* goroutine runs code of its own.                                         *)
(***************************************************************************)
Next ==
    \/ CallMust("main")
    \/ CallCheck("main")
    \/ CallIgnore("main")
    \/ CallOr("main")
    \/ CallTry("main")
    \/ TryCallFn("main")
    \/ TryDefer("main")
    \/ CallTryOr("main")
    \/ TryOrCallTry("main")
    \/ TryOrCallOr("main")
    \/ \E g \in Gor : CallPanic(g)
    \/ \E g \in Gor : Crash(g)

Spec == Init /\ [][Next]_vars

(***************************************************************************)
(* SpecInput: Input and its validator chain, called directly and inside    *)
(* Try.                                                                    *)
(***************************************************************************)
NextInput ==
    \/ CallInput("main")
    \/ CallTryInput("main")
    \/ TryCallFn("main")
    \/ TryDefer("main")
    \/ InputRaw("main")
    \/ InputValidate("main")
    \/ InputReturn("main")
    \/ Crash("main")

SpecInput == Init /\ [][NextInput]_vars

(***************************************************************************)
(* SpecPair: two goroutines call Try side by side, each with a closure of  *)
(* its own.                                                                *)
(***************************************************************************)
NextPair ==
    \/ \E g \in Gor : CallTry(g)
    \/ \E g \in Gor : TryCallFn(g)
    \/ \E g \in Gor : TryDefer(g)

SpecPair == Init /\ [][NextPair]_vars

(***************************************************************************)
(* SpecValidators: a validator is constructed and applied to a string.     *)
(***************************************************************************)
\* err := validator(s) for a built-in validator and any string s.
CallValidator(g) ==
    /\ AtTopLevel(g)
    /\ \E validator \in Validators \cup NegativeValidators, s \in Lines :
         Finish(g, "Validator", [validator |-> validator, s |-> s],
                Return(Validate(validator, s)))

NextValidators == CallValidator("main")

SpecValidators == Init /\ [][NextValidators]_vars

(***************************************************************************)
(* Properties.                                                             *)
(***************************************************************************)
\* The top-level call g made last has returned / was a call of op that has
\* returned.
Returned(g, op) == ret[g].op = op /\ ret[g].out.kind = "return"

BodyPanics(body) == EvalBody(body).kind = "panic"

\* C1: when fn panics, whatever the payload, Try(fn) returns normally with
\* (zero value of T, false): the panic never leaves Try (Try, and the caller
\* of Try, never end in a panic, and a panic in progress in a goroutine that
\* called Try is still inside Try's frame), and once Try has returned no
\* panic is in progress and the pair is (Zero, FALSE).
C1_TryContainsPanic ==
    \A g \in Gor :
        ret[g].op \in {"Try", "TryOr"} =>
            /\ ret[g].out.kind # "panic"
            /\ panicking[g] # NoPanic => stack[g] # <<>>
            /\ (Returned(g, "Try") /\ BodyPanics(ret[g].args.body)) =>
                    /\ ret[g].out.val = <<Zero, FALSE>>
                    /\ panicking[g] = NoPanic

\* A second call Try(fn), fn panicking, has returned (0, false) after a first
\* call that had returned normally.
C1_Witness ==
    /\ Returned("main", "Try")
    /\ BodyPanics(ret["main"].args.body)
    /\ ret["main"].out.val = <<0, FALSE>>
    /\ ncalls["main"] = 2
    /\ exited = NoPanic

\* C2: when fn completes normally with result r, Try(fn) returns (r, true).
C2_TryReturnsResult ==
    \A g \in Gor :
        (Returned(g, "Try") /\ ~BodyPanics(ret[g].args.body)) =>
            ret[g].out.val = <<EvalBody(ret[g].args.body).val, TRUE>>

C2_Witness ==
    /\ Returned("main", "Try")
    /\ ret["main"].args.body.kind = "return"
    /\ ret["main"].args.body.val # Zero
    /\ ret["main"].out.val = <<ret["main"].args.body.val, TRUE>>

\* The step in which the Try frame on top of g's stack runs its deferred
\* function and returns, and the ok it hands to its caller.
TryReturns(g) ==
    /\ InFrame(g, "Try", "defer")
    /\ Len(stack'[g]) < Len(stack[g])

OkReturned(g) ==
    IF stack'[g] = <<>> THEN ret'[g].out.val[2] ELSE stack'[g][Len(stack'[g])].ok

\* C3: Try intercepts only the panic of its own invocation of fn.  In the
\* step in which Try's deferred function runs, the panic of no other
\* goroutine is stopped, and when the goroutine of Try is not panicking
\* itself the ok that `return fn(), true` set is returned as it is, also
\* while another goroutine is panicking.
C3_TryRecoversOwnPanicOnly ==
    [][\A g \in Gor :
          TryReturns(g) =>
              /\ \A h \in Gor \ {g} : panicking'[h] = panicking[h]
              /\ panicking[g] = NoPanic => OkReturned(g) = Top(g).ok]_vars

\* fn has returned normally inside Try on main while the other goroutine is
\* panicking: Try's deferred function is about to run.
C3_Witness ==
    /\ InFrame("main", "Try", "defer")
    /\ Top("main").ok = TRUE
    /\ panicking["main"] = NoPanic
    /\ panicking["other"] # NoPanic

\* C7: with (x, ok) = Try(func() T { return Must(v, e) }), Or(x, ok, d) is v
\* when e is nil and d when e is not nil, and the composition never panics:
\* the panic of Must is contained by Try and defaulted by Or.
C7_TryMustOr ==
    \A g \in Gor :
        (ret[g].op = "TryOr" /\ ret[g].args.body.kind = "must") =>
            /\ ret[g].out.kind \in {"running", "return"}
            /\ ret[g].out.kind = "return" =>
                  /\ ret[g].out.val = IF ret[g].args.body.err = Nil
                                      THEN ret[g].args.body.val
                                      ELSE ret[g].args.d
                  /\ panicking[g] = NoPanic

C7_Witness ==
    /\ Returned("main", "TryOr")
    /\ ret["main"].args.body.kind = "must"
    /\ ret["main"].args.body.err # Nil
    /\ ret["main"].args.body.val # ret["main"].args.d
    /\ ret["main"].out.val = ret["main"].args.d
    /\ exited = NoPanic

\* The step in which g makes a top-level call of the straight-line helper op.
Calls(g, op) == ncalls'[g] = ncalls[g] + 1 /\ ret'[g].op = op

\* C8: Must(v, err) returns v when err is nil; when err is not nil it panics
\* with err itself as the payload and returns nothing: the goroutine is
\* panicking with err right after the call, and inside Try the panic that
\* reaches Try's deferred function carries err.
C8_Must ==
    /\ \A g \in Gor :
          ret[g].op = "Must" =>
              IF ret[g].args.err = Nil
              THEN ret[g].out = Return(ret[g].args.v) /\ panicking[g] = NoPanic
              ELSE ret[g].out = Panic(ret[g].args.err) /\ panicking[g] = ret[g].args.err
    /\ \A g \in Gor :
          (InFrame(g, "Try", "defer") /\ Top(g).args.body.kind = "must") =>
              IF Top(g).args.body.err = Nil
              THEN panicking[g] = NoPanic /\ Top(g).v = Top(g).args.body.val /\ Top(g).ok
              ELSE panicking[g] = Top(g).args.body.err

\* Must(v, err) with err not nil has panicked at top level and the process
\* has ended with err.
C8_Witness ==
    /\ ret["main"].op = "Must"
    /\ ret["main"].args.err # Nil
    /\ ret["main"].out.kind = "panic"
    /\ exited = ret["main"].args.err

\* C9: Check(err) has no observable effect when err is nil (no panic, no
\* output, no change of any call stack), and panics with err itself as the
\* payload when err is not nil.
C9_Check ==
    [][\A g \in Gor :
          Calls(g, "Check") =>
              IF ret'[g].args.err = Nil
              THEN /\ ret'[g].out = Return(NoValue)
                   /\ UNCHANGED <<stack, panicking, exited, stdout, called, env, files, fileops, nread>>
              ELSE /\ ret'[g].out = Panic(ret'[g].args.err)
                   /\ panicking'[g] = ret'[g].args.err
                   /\ \A h \in Gor \ {g} : panicking'[h] = panicking[h]
                   /\ UNCHANGED <<stack, exited, stdout, called, env, files, fileops, nread>>]_vars

\* Check(err) with err not nil has ended the process with err, after an
\* earlier call that came back.
C9_Witness ==
    /\ ret["main"].op = "Check"
    /\ ret["main"].args.err # Nil
    /\ exited = ret["main"].args.err
    /\ ncalls["main"] = 2

\* C10: Or(v, ok, fallback) returns v when ok is true and fallback when ok
\* is false, for every v and fallback, and never panics.
C10_Or ==
    \A g \in Gor :
        ret[g].op = "Or" =>
            /\ ret[g].out.kind = "return"
            /\ ret[g].args.ok => ret[g].out.val = ret[g].args.v
            /\ ~ret[g].args.ok => ret[g].out.val = ret[g].args.fallback
            /\ panicking[g] = NoPanic

\* Or(v, false, fallback) has returned fallback although v is not the zero
\* value and differs from fallback.
C10_Witness ==
    /\ Returned("main", "Or")
    /\ ~ret["main"].args.ok
    /\ ret["main"].args.v # Zero
    /\ ret["main"].args.v # ret["main"].args.fallback
    /\ ret["main"].out.val = ret["main"].args.fallback

(***************************************************************************)
(* Properties of Input and its validator chain (SpecInput).                *)
(***************************************************************************)
AcceptsAll(chain, s) == \A j \in 1 .. Len(chain) : Validate(chain[j], s) = Nil

\* The earliest validator of the chain that rejects s.
FirstFailing(chain, s) ==
    CHOOSE j \in 1 .. Len(chain) :
        /\ Validate(chain[j], s) # Nil
        /\ \A k \in 1 .. (j - 1) : Validate(chain[k], s) = Nil

\* The step in which the Input frame on top of g's stack is left, by a
\* return or by a panic.
InputEnds(g) ==
    /\ InFrame(g, "Input", "validate")
    /\ Len(stack'[g]) < Len(stack[g])

\* What the frame that g's step has left handed to its caller.
Delivered(g) ==
    IF stack'[g] = <<>> THEN ret'[g].out.val ELSE stack'[g][Len(stack'[g])].v

\* C4: Input applies the validators strictly in the order of the chain:
\* while it validates, the validators invoked so far are exactly those
\* before the current position, each once, in chain order; and when some
\* validator rejects the input, Input ends in a panic whose payload is the
\* error "invalid string input: " followed by the reason of the earliest
\* rejecting validator, having invoked the validators up to that one.
C4_ChainOrderFirstFailure ==
    [][\A g \in Gor :
          InFrame(g, "Input", "validate") =>
              LET f == Top(g)
                  chain == f.args.validators
              IN /\ called = [j \in 1 .. (f.i - 1) |-> j]
                 /\ (InputEnds(g) /\ ~AcceptsAll(chain, f.input)) =>
                        LET j == FirstFailing(chain, f.input)
                        IN /\ called' = [k \in 1 .. j |-> k]
                           /\ panicking'[g] =
                                 [kind |-> "error",
                                  msg |-> "invalid string input: "
                                             \o Validate(chain[j], f.input).msg]]_vars

\* Input with the chain [NotEmpty(), MinLen(2)] read a one-byte line:
\* NotEmpty accepted it, MinLen(2) rejected it, and the process ended with
\* the reason of MinLen(2), wrapped.
C4_Witness ==
    /\ ret["main"].op = "Input"
    /\ ret["main"].out.kind = "panic"
    /\ ret["main"].args.validators = <<NotEmpty, MinLen(2)>>
    /\ ret["main"].frame.input = <<"a">>
    /\ called = <<1, 2>>
    /\ exited = [kind |-> "error", msg |-> "invalid string input: minimum length is 2"]

\* C5: a validator is invoked only when it is the next one of the chain
\* and every validator before it has been invoked and has accepted the
\* input: once a validator has rejected the input, no validator after it
\* is invoked.
C5_ShortCircuit ==
    [][(called' # called /\ called' # <<>>) =>
          \E g \in Gor :
              /\ InFrame(g, "Input", "validate")
              /\ Len(called) < Len(Top(g).args.validators)
              /\ called' = Append(called, Len(called) + 1)
              /\ \A j \in 1 .. Len(called) :
                    Validate(Top(g).args.validators[j], Top(g).input) = Nil]_vars

\* The chain [A, B] = [MinLen(2), NotEmpty()] on the empty line: both reject
\* it, only A was invoked and only A's reason was surfaced.
C5_Witness ==
    /\ ret["main"].op = "Input"
    /\ ret["main"].out = Panic([kind |-> "error",
                                msg |-> "invalid string input: minimum length is 2"])
    /\ ret["main"].args.validators = <<MinLen(2), NotEmpty>>
    /\ ret["main"].frame.input = EmptyString
    /\ Validate(NotEmpty, ret["main"].frame.input) # Nil
    /\ called = <<1>>

\* r is line without its leading and trailing white space.
IsTrimmed(r, line) ==
    \E a \in 0 .. Len(line), b \in 0 .. Len(line) :
        /\ a + Len(r) + b = Len(line)
        /\ r = SubSeq(line, a + 1, a + Len(r))
        /\ \A k \in 1 .. a : line[k] \in WhiteSpace
        /\ \A k \in (Len(line) - b + 1) .. Len(line) : line[k] \in WhiteSpace
        /\ r # <<>> => (r[1] \notin WhiteSpace /\ r[Len(r)] \notin WhiteSpace)

\* C6: when every validator of the chain accepts the input, Input does not
\* panic, and what it returns is the line read without its leading and
\* trailing white space, not changed by the validators.
C6_AcceptedInputReturned ==
    [][\A g \in Gor :
          (InFrame(g, "Input", "validate")
              /\ AcceptsAll(Top(g).args.validators, Top(g).input)) =>
              /\ panicking'[g] = NoPanic
              /\ InputEnds(g) => IsTrimmed(Delivered(g), Top(g).line)]_vars

\* Input with two validators returned a line from which white space had
\* been trimmed.
C6_Witness ==
    /\ Returned("main", "Input")
    /\ Len(ret["main"].args.validators) = 2
    /\ called = <<1, 2>>
    /\ ret["main"].frame.line = <<"a", " ">>
    /\ ret["main"].out.val = <<"a">>

\* What the caller of Try(fn) has in hand once the call has returned: the
\* pair returned, the panic in progress in its goroutine, and what the
\* process has printed or died of.
Observed(g) == <<ret[g].out, panicking[g], stdout, exited>>

\* C11: the caller of Try never sees the panic payload.  Whenever two calls
\* of Try, made side by side with closures that panic, have both returned,
\* what the two callers observe is identical, whatever the two payloads are:
\* the pair (Zero, FALSE), no panic in progress, nothing printed, the process
\* alive.
C11_PayloadNotObservable ==
    \A g, h \in Gor :
        (/\ Returned(g, "Try") /\ BodyPanics(ret[g].args.body)
         /\ Returned(h, "Try") /\ BodyPanics(ret[h].args.body)) =>
            /\ Observed(g) = Observed(h)
            /\ Observed(g) = <<Return(<<Zero, FALSE>>), NoPanic, <<>>, NoPanic>>

\* Two calls of Try whose closures panicked with different payloads, an
\* error and a string, have both returned, with the same pair.
C11_Witness ==
    /\ Returned("main", "Try") /\ Returned("other", "Try")
    /\ ret["main"].args.body.kind = "panic"
    /\ ret["other"].args.body.kind = "panic"
    /\ ret["main"].args.body.err \in Errs
    /\ ret["other"].args.body.err \notin Errs \cup {Nil}
    /\ ret["main"].out = ret["other"].out

\* The validator call g made last: the validator, the string it was given
\* and the error it returned.
Applied(g, kind) == Returned(g, "Validator") /\ ret[g].args.validator.kind = kind

\* C12: for every n >= 0 and every string s, MinLen(n) applied to s fails iff
\* the length of s (len(s), the length Go gives a string) is less than n, and
\* the reason of the failure is "minimum length is " followed by n in decimal.
C12_MinLen ==
    \A g \in Gor :
        Applied(g, "MinLen") =>
            LET n == ret[g].args.validator.n
                s == ret[g].args.s
                err == ret[g].out.val
            IN /\ (err # Nil) <=> (GoLen(s) < n)
               /\ err # Nil => err = ErrorsNew("minimum length is " \o ToString(n))

\* MinLen(2) has rejected a string of length 1 with "minimum length is 2".
C12_Witness ==
    /\ Applied("main", "MinLen")
    /\ ret["main"].args.validator.n = 2
    /\ GoLen(ret["main"].args.s) = 1
    /\ ret["main"].out.val = ErrorsNew("minimum length is 2")

\* C13: for every n >= 0 and every string s, MaxLen(n) applied to s fails iff
\* the length of s is greater than n, and the reason of the failure is
\* "maximum length is " followed by n in decimal.
C13_MaxLen ==
    \A g \in Gor :
        Applied(g, "MaxLen") =>
            LET n == ret[g].args.validator.n
                s == ret[g].args.s
                err == ret[g].out.val
            IN /\ (err # Nil) <=> (GoLen(s) > n)
               /\ err # Nil => err = ErrorsNew("maximum length is " \o ToString(n))

\* MaxLen(1) has rejected a string of length 2 with "maximum length is 1".
C13_Witness ==
    /\ Applied("main", "MaxLen")
    /\ ret["main"].args.validator.n = 1
    /\ GoLen(ret["main"].args.s) = 2
    /\ ret["main"].out.val = ErrorsNew("maximum length is 1")

\* C14: NotEmpty() fails, with reason "value cannot be empty", on the empty
\* string and succeeds on every other string, white space included.
C14_NotEmpty ==
    \A g \in Gor :
        Applied(g, "NotEmpty") =>
            ret[g].out.val = IF Len(ret[g].args.s) = 0
                             THEN ErrorsNew("value cannot be empty")
                             ELSE Nil

\* NotEmpty() has accepted a string made of one space, after rejecting or
\* accepting another string before.
C14_Witness ==
    /\ Applied("main", "NotEmpty")
    /\ ret["main"].args.s = <<" ">>
    /\ ret["main"].out.val = Nil
    /\ ncalls["main"] = 2

\* C16: MinLen(n) and MaxLen(n) check the character count of the string,
\* also when it holds multi-byte characters: MinLen(n) fails iff the string
\* has fewer than n characters, MaxLen(n) iff it has more than n.
C16_CharacterCount ==
    \A g \in Gor :
        /\ Applied(g, "MinLen") =>
              ((ret[g].out.val # Nil) <=> (Len(ret[g].args.s) < ret[g].args.validator.n))
        /\ Applied(g, "MaxLen") =>
              ((ret[g].out.val # Nil) <=> (Len(ret[g].args.s) > ret[g].args.validator.n))

\* MaxLen(1) has rejected a string of one character, whose UTF-8 encoding
\* takes two bytes.
C16_Witness ==
    /\ Applied("main", "MaxLen")
    /\ ret["main"].args.validator.n = 1
    /\ ret["main"].args.s = <<"U+015F">>
    /\ ret["main"].out.val = ErrorsNew("maximum length is 1")

\* C15: when a validator rejects the line Input has read, Input asks again:
\* the call is not over, no panic is raised, and Input is back at showing
\* the prompt and reading a new line (and so on until a line passes).
C15_AsksAgain ==
    [][\A g \in Gor :
          (/\ InFrame(g, "Input", "validate")
           /\ Top(g).i <= Len(Top(g).args.validators)
           /\ Validate(Top(g).args.validators[Top(g).i], Top(g).input) # Nil) =>
              /\ Len(stack'[g]) = Len(stack[g])
              /\ stack'[g][Len(stack'[g])].fn = "Input"
              /\ stack'[g][Len(stack'[g])].pc = "read"
              /\ panicking'[g] = NoPanic]_vars

\* Input("Email: ", MinLen(2)) read a one-byte line and the process has
\* ended with "invalid string input: minimum length is 2", the prompt having
\* been shown once.
C15_Witness ==
    /\ ret["main"].op = "Input"
    /\ ret["main"].args.prompt = "Email: "
    /\ ret["main"].args.validators = <<MinLen(2)>>
    /\ ret["main"].out = Panic(ErrorsNew("invalid string input: minimum length is 2"))
    /\ stdout = <<"Email: ">>
    /\ exited = ErrorsNew("invalid string input: minimum length is 2")

(***************************************************************************)
(* Properties of env.go (SpecEnv).                                         *)
(***************************************************************************)
\* The lines the running or last EnvFile call of g has taken from its file.
LinesRead(g) ==
    IF stack[g] # <<>> /\ Top(g).fn = "EnvFile" THEN Top(g).lines
    ELSE IF ret[g].op = "EnvFile" /\ ret[g].out.kind # "running" THEN ret[g].frame.lines
    ELSE <<>>

\* The step in which EnvFile, called by g, takes the line text from its file.
EnvFileReads(g, text) ==
    /\ InFrame(g, "EnvFile", "scan")
    /\ LinesRead(g)' = Append(LinesRead(g), text)

\* C17: EnvFile never overrides an existing environment variable.  No step
\* of the program changes or unsets a variable that is set, be it set by
\* the environment the process started with, by an earlier line of the
\* same file or by an earlier call of EnvFile: the first-defined value
\* stays.
C17_NoOverride ==
    [][\A key \in EnvKeys : env[key].set => env'[key] = env[key]]_vars

\* EnvFile has read A=1 and then A=2 from one file, and A is 1.
C17_Witness ==
    /\ LinesRead("main") = << <<"A", "=", "1">>, <<"A", "=", "2">> >>
    /\ env[<<"A">>] = Value(<<"1">>)

\* C18: in an env line `KEY=value   # text` the trailing `# text` is a
\* comment and no part of the value: when EnvFile reads the line
\* `B=1 #c` while B is not set, B is set to "1".
C18_InlineComment ==
    [][\A g \in Gor :
          (EnvFileReads(g, <<"B", "=", "1", " ", "#", "c">>) /\ ~env[<<"B">>].set) =>
              env'[<<"B">>] = Value(<<"1">>)]_vars

\* EnvFile has read the single line `B=1 #c` and B is "1 #c".
C18_Witness ==
    /\ LinesRead("main") = << <<"B", "=", "1", " ", "#", "c">> >>
    /\ env[<<"B">>] = Value(<<"1", " ", "#", "c">>)

\* C19: MustEnv(key) returns the value of the variable iff it is set and
\* not empty; otherwise (not set, or set to the empty string) it panics
\* with the error "required env var missing: " followed by key.
C19_MustEnv ==
    \A g \in Gor :
        ret[g].op = "MustEnv" =>
            LET key == ret[g].args.key
            IN IF env[key].set /\ Len(env[key].value) > 0
               THEN ret[g].out = Return(env[key].value) /\ panicking[g] = NoPanic
               ELSE /\ ret[g].out = Panic(ErrorsNew("required env var missing: " \o Text(key)))
                    /\ panicking[g] = ErrorsNew("required env var missing: " \o Text(key))

\* MustEnv("A") has ended the process with "required env var missing: A"
\* although A is set, to the empty string, by the line `A=` of an env file.
C19_Witness ==
    /\ ret["main"].op = "MustEnv"
    /\ ret["main"].args.key = <<"A">>
    /\ env[<<"A">>] = Value(<<>>)
    /\ exited = ErrorsNew("required env var missing: A")
    /\ ncalls["main"] = 2

(***************************************************************************)
(* Properties of file.go (SpecFile).                                       *)
(***************************************************************************)
\* g's step ends its call of CreateFile with a normal return.
CreateFileReturns(g) == stack'[g] = <<>> /\ ret'[g].out.kind = "return"

\* C20: CreateFile(p, c) does nothing when p exists and creates the file
\* with content exactly c when p does not exist; it touches nothing but
\* the file at p.  In every step of a call CreateFile(p, c):
\*   - no other file, no environment variable and no output changes;
\*   - when os.Stat finds p, the call is over after that step and every
\*     file is as it was (so after CreateFile(p, a); CreateFile(p, b) the
\*     file still holds a);
\*   - when os.Stat does not find p, the call does not return at that
\*     step, and when it returns later the file at p holds exactly c.
C20_CreateFile ==
    [][\A g \in Gor :
          (stack[g] # <<>> /\ Top(g).fn = "CreateFile" /\ exited = NoPanic) =>
              LET f == Top(g)
                  p == f.args.path
              IN /\ \A q \in Paths \ {p} : files'[q] = files[q]
                 /\ UNCHANGED <<env, stdout>>
                 /\ (f.pc = "stat" /\ files[p].exists) =>
                        files' = files /\ stack'[g] = <<>>
                 /\ (f.pc = "stat" /\ ~files[p].exists) =>
                        files' = files /\ ~CreateFileReturns(g)
                 /\ (f.pc # "stat" /\ CreateFileReturns(g)) =>
                        files'[p] = File(f.args.content)]_vars

\* A second call CreateFile(p, "bb") has returned and the file at p holds
\* "a", not "bb".
C20_Witness ==
    /\ Returned("main", "CreateFile")
    /\ ret["main"].args.content = <<"b", "b">>
    /\ files[ret["main"].args.path] = File(<<"a">>)
    /\ ncalls["main"] = 2

(***************************************************************************)
(* Properties of ReadFile, WriteFile and AppendFile (SpecFileOps).         *)
(***************************************************************************)
\* The calls of log that wrote to path p.
HasWriteFile(log, p) ==
    \E i \in 1 .. Len(log) : log[i].op = "WriteFile" /\ log[i].args.path = p

\* The content of the last WriteFile on p in log, followed by the contents
\* of the AppendFile calls on p made after it, in call order.
RECURSIVE LastWriteThenAppends(_, _)
LastWriteThenAppends(log, p) ==
    IF log = <<>> THEN <<>>
    ELSE LET e == log[Len(log)]
             before == SubSeq(log, 1, Len(log) - 1)
         IN IF e.args.path # p \/ e.op = "ReadFile" THEN LastWriteThenAppends(before, p)
            ELSE IF e.op = "WriteFile" THEN e.args.content
            ELSE LastWriteThenAppends(before, p) \o e.args.content

C22_RandIntInRange ==
    \A g \in Gor :
        ret[g].op = "RandInt" =>
            IF ret[g].args.min <= ret[g].args.max
            THEN /\ ret[g].out.kind = "return"
                 /\ ret[g].args.min <= ret[g].out.val
                 /\ ret[g].out.val <= ret[g].args.max
            ELSE ret[g].out.kind = "panic"

\* RandInt(-1, MaxInt) has panicked, inside rand.Intn: max-min+1 has
\* wrapped around to a negative number.
C22_Witness ==
    /\ ret["main"].op = "RandInt"
    /\ ret["main"].args.min = 0 - 1
    /\ ret["main"].args.max = MaxInt
    /\ ret["main"].out = Panic(StringValue("invalid argument to Intn"))

(***************************************************************************)
(* Properties of http.go (SpecHttp).                                       *)
(***************************************************************************)
\* C23: GetBody does not follow redirects: when the URL requested answers
\* with a 3xx status, GetBody returns ("", error "status code: <code>"),
\* and never the body of the redirect target.
C23_NoRedirectFollowed ==
    \A g \in Gor :
        (/\ ret[g].op = "GetBody"
         /\ ret[g].args.web[ret[g].args.url].status \in 300 .. 399) =>
            ret[g].out.val =
                <<NoBody,
                  ErrorsNew("status code: "
                              \o ToString(ret[g].args.web[ret[g].args.url].status))>>

\* GetBody("/a") has returned the body of /b without an error: /a answers
\* 302 with Location /b, and /b answers 200 with a body.
C23_Witness ==
    /\ Returned("main", "GetBody")
    /\ ret["main"].args.url = "/a"
    /\ ret["main"].args.web["/a"].status = 302
    /\ ret["main"].args.web["/a"].location = "/b"
    /\ ret["main"].args.web["/b"].status = StatusOK
    /\ ret["main"].args.web["/b"].body # NoBody
    /\ ret["main"].out.val = <<ret["main"].args.web["/b"].body, Nil>>

\* C24: when the response body cannot be decoded as JSON into T, GetJSON
\* returns the zero value of T together with the decoding error: no
\* partially decoded data is returned.
C24_ZeroOnDecodeError ==
    \A g \in Gor :
        (/\ ret[g].op = "GetJSON"
         /\ ret[g].out.val[2] \in {SyntaxError} \cup {UnmarshalTypeError(n) : n \in {"A", "B"}}) =>
            ret[g].out.val[1] = ZeroT

\* GetJSON has returned the error for the member "A": "x" together with a
\* result whose field B holds the 2 decoded from the member "B": 2.
C24_Witness ==
    /\ Returned("main", "GetJSON")
    /\ ret["main"].out.val[2] = UnmarshalTypeError("A")
    /\ ret["main"].out.val[1] = [A |-> 0, B |-> 2]

(***************************************************************************)
(* Properties of successive input calls (SpecStdin).                       *)
(***************************************************************************)
\* C25: when input calls are made one after another on the same standard
\* input, the k-th call returns the k-th line of the stream: the line an
\* input call has taken is the one at the position given by the number of
\* input calls made so far, so that no line is skipped between calls.
C25_KthCallKthLine ==
    \A g \in Gor :
        (/\ stack[g] # <<>>
         /\ Top(g).fn \in {"Input", "InputInt"}
         /\ Top(g).pc # "read") =>
            Top(g).lineno = ncalls[g]

\* The second input call, an InputInt after an Input that returned, has
\* returned the number on the third line of the stream.
C25_Witness ==
    /\ Returned("main", "InputInt")
    /\ ncalls["main"] = 2
    /\ ret["main"].frame.lineno = 3
    /\ ret["main"].frame.input = <<"1", "1">>
    /\ ret["main"].out.val = 11
    /\ exited = NoPanic

(***************************************************************************)
(* Properties of concurrent CreateFile calls (SpecFileConc).               *)
(***************************************************************************)
\* Each goroutine has made one call, CreateFile on the same path, and both
\* calls have returned.
BothCreated ==
    /\ \A g \in Gor : Returned(g, "CreateFile") /\ ncalls[g] = 1
    /\ ret["main"].args.path = ret["other"].args.path

\* C26: when two CreateFile calls on the same path, which does not exist
\* beforehand, run concurrently with contents a and b, then after both
\* have finished the file holds exactly a or exactly b, never a mixture or
\* overlay of the two.
C26_OneContentWins ==
    BothCreated =>
        \E g \in Gor : files[ret[g].args.path] = File(ret[g].args.content)

\* CreateFile(p, "a") and CreateFile(p, "bb") have both returned and the
\* file holds "ab": both calls found no file, "bb" was written first and
\* "a" over its first byte.
C26_Witness ==
    /\ BothCreated
    /\ {ret[g].args.content : g \in Gor} = {<<"a">>, <<"b", "b">>}
    /\ files[ret["main"].args.path] = File(<<"a", "b">>)
    /\ exited = NoPanic

(***************************************************************************)
(* Properties of EnvFile as a whole (SpecEnv).                             *)
(***************************************************************************)
\* The line text is neither blank nor a comment and has no `=`.
InvalidLine(text) ==
    LET line == TrimSpace(text)
    IN line # <<>> /\ ~HasPrefix(line, "#") /\ ~Cut(line, "=").found

\* The line text has the form KEY=value for KEY = key, with white space
\* allowed around KEY; and the value it gives.
Defines(text, key) ==
    LET line == TrimSpace(text)
    IN /\ line # <<>> /\ ~HasPrefix(line, "#")
       /\ Cut(line, "=").found
       /\ TrimSpace(Cut(line, "=").before) = key

ValueOf(text) == TrimSpace(Cut(TrimSpace(text), "=").after)

\* The value key has after the lines have been loaded into environment e0:
\* its value in e0 when set there, else the value of the first line that
\* defines it, else none.
FirstDefined(e0, lines, key) ==
    IF e0[key].set THEN e0[key]
    ELSE IF \E i \in 1 .. Len(lines) : Defines(lines[i], key)
    THEN Value(ValueOf(lines[CHOOSE i \in 1 .. Len(lines) :
                                 /\ Defines(lines[i], key)
                                 /\ \A j \in 1 .. (i - 1) : ~Defines(lines[j], key)]))
    ELSE Unset

\* The last call of g, EnvFile, has panicked at an invalid line.
PanickedAtInvalidLine(g) ==
    /\ ret[g].op = "EnvFile"
    /\ ret[g].out.kind = "panic"
    /\ ret[g].frame.lines # <<>>
    /\ InvalidLine(ret[g].frame.lines[Len(ret[g].frame.lines)])

\* C27 as stated: EnvFile is all-or-nothing: when it panics because of an
\* invalid line, the environment is the same as before the call.
C27_AllOrNothing ==
    \A g \in Gor : PanickedAtInvalidLine(g) => env = ret[g].frame.env0

\* C27, amended: EnvFile is not all-or-nothing.  When it panics because of
\* an invalid line, the lines before that line have taken effect and stay
\* in effect: every variable has the value it had before the call when it
\* was set, else the value given by the first earlier line defining it,
\* and is unset only when no earlier line defines it.
C27_EarlierLinesStay ==
    \A g \in Gor :
        PanickedAtInvalidLine(g) =>
            LET lines == ret[g].frame.lines
            IN \A key \in EnvKeys :
                  env[key] = FirstDefined(ret[g].frame.env0,
                                          SubSeq(lines, 1, Len(lines) - 1), key)

\* EnvFile has read A=1 and then the line `A`, which has no `=`: it has
\* panicked, and A, not set before the call, is 1.
C27_Witness ==
    /\ PanickedAtInvalidLine("main")
    /\ ret["main"].frame.lines = << <<"A", "=", "1">>, <<"A">> >>
    /\ ~ret["main"].frame.env0[<<"A">>].set
    /\ env[<<"A">>] = Value(<<"1">>)
    /\ exited = ErrorsNew("invalid env line: \"A\"")

\* g's step is a call MustEnv(key) made right after a call of EnvFile that
\* returned normally and whose file holds a line key=v with v not empty.
MustEnvAfterEnvFile(g, key) ==
    /\ Returned(g, "EnvFile")
    /\ \E i \in 1 .. Len(ret[g].frame.lines) :
          Defines(ret[g].frame.lines[i], key) /\ ValueOf(ret[g].frame.lines[i]) # <<>>
    /\ Calls(g, "MustEnv")
    /\ ret'[g].args.key = key

\* C28 as stated: after EnvFile(path) has returned normally for a file
\* holding a line KEY=v with v not empty, MustEnv(KEY) returns a non-empty
\* value without panicking, whatever the environment was before the call
\* of EnvFile.
C28_MustEnvAfterEnvFile ==
    [][\A g \in Gor, key \in EnvKeys :
          MustEnvAfterEnvFile(g, key) =>
              /\ ret'[g].out.kind = "return"
              /\ ret'[g].out.val # <<>>]_vars

\* C28, amended: after such a call of EnvFile, MustEnv(KEY) returns the
\* value KEY had before the call of EnvFile when it was set, else the
\* value of the first line of the file that defines KEY; it returns
\* without panicking iff that value is not empty, and panics when KEY was
\* set to the empty string before or the first line defining it is `KEY=`.
C28_FirstDefinitionDecides ==
    [][\A g \in Gor, key \in EnvKeys :
          MustEnvAfterEnvFile(g, key) =>
              LET first == FirstDefined(ret[g].frame.env0, ret[g].frame.lines, key)
              IN IF first.value # <<>>
                 THEN ret'[g].out = Return(first.value)
                 ELSE ret'[g].out.kind = "panic"]_vars

\* EnvFile has returned for a file holding A=1 that was loaded into an
\* environment without A, and MustEnv("A") has then returned "1".
C28_Witness ==
    /\ Returned("main", "MustEnv")
    /\ ret["main"].args.key = <<"A">>
    /\ ret["main"].out.val = <<"1">>
    /\ env[<<"A">>] = Value(<<"1">>)
    /\ ncalls["main"] = 2

(***************************************************************************)
(* Properties of nested Try calls (SpecNested).                            *)
(***************************************************************************)
\* C29: a panic contained by an inner Try is not observed by an enclosing
\* Try.  When fn calls Try(g) and returns Or(x, ok, d), the outer Try(fn)
\* returns (d, true) when g panics and (r, true) when g returns r, with no
\* panic in progress afterwards; and a Try call of a plain closure, made
\* before or after, returns what it returns on its own: (r, true) for a
\* closure returning r, (0, false) for one that panics.
C29_InnerPanicContained ==
    \A g \in Gor :
        Returned(g, "Try") =>
            LET body == ret[g].args.body
            IN /\ panicking[g] = NoPanic
               /\ ret[g].out.val =
                     IF body.kind = "tryor"
                     THEN IF BodyPanics(body.body) THEN <<body.d, TRUE>>
                          ELSE <<EvalBody(body.body).val, TRUE>>
                     ELSE IF BodyPanics(body) THEN <<Zero, FALSE>>
                          ELSE <<EvalBody(body).val, TRUE>>

\* The second call, Try(fn) with fn calling Try of a panicking closure and
\* returning Or(x, ok, 2), has returned (2, true).
C29_Witness ==
    /\ Returned("main", "Try")
    /\ ret["main"].args.body.kind = "tryor"
    /\ ret["main"].args.body.body.kind = "panic"
    /\ ret["main"].args.body.d = 2
    /\ ret["main"].out.val = <<2, TRUE>>
    /\ ncalls["main"] = 2

(***************************************************************************)
(* Properties of validators built with a negative n (SpecValidators).      *)
(***************************************************************************)
\* C30: MinLen(n) and MaxLen(n) built with a negative n are ordinary
\* validators whose call returns without a panic: MinLen(n) accepts every
\* string and MaxLen(n) rejects every string, the empty one included.
C30_NegativeBound ==
    \A g \in Gor :
        (/\ ret[g].op = "Validator"
         /\ ret[g].args.validator \in NegativeValidators) =>
            /\ ret[g].out.kind = "return"
            /\ panicking[g] = NoPanic
            /\ exited = NoPanic
            /\ ret[g].args.validator.kind = "MinLen" => ret[g].out.val = Nil
            /\ ret[g].args.validator.kind = "MaxLen" => ret[g].out.val # Nil

\* MaxLen(-1) has rejected the empty string.
C30_Witness ==
    /\ Applied("main", "MaxLen")
    /\ ret["main"].args.validator.n = 0 - 1
    /\ ret["main"].args.s = EmptyString
    /\ ret["main"].out.val = ErrorsNew("maximum length is -1")

====
